---- MODULE Spec2Model ----
(***************************************************************************)
(* Model of the gateway lifecycle orchestrator                             *)
(* (src/sdk-deploy/gateway_manager.py) and of the cleanup sweep            *)
(* (src/sdk-deploy/cleanup.py) running against a remote, eventually        *)
(* consistent control plane.                                               *)
(*                                                                         *)
(* The remote control plane is the environment: it holds the gateways and  *)
(* their targets, answers every call with one of the answers it can give   *)
(* in its current state, and moves resources through CREATING and DELETING *)
(* on its own.  The program is sequential: pc is its position, one action  *)
(* per control-plane call or loop iteration.                               *)
(***************************************************************************)
EXTENDS Integers, Sequences, FiniteSets, TLC

VARIABLES
    gw,            \* remote: gateway id -> status
    tgStatus,      \* remote: target id -> status
    tgOwner,       \* remote: target id -> owning gateway id (NoGateway while unused)
    otherOps,      \* number of changes other clients have made to the remote
    invocations,   \* number of CLI invocations started
    pc,            \* position of the program
    op,            \* the CLI action of the running invocation
    caller,        \* who called delete_gateway: "main" or "sweep"
    gid,           \* gateway_id of the running lifecycle operation
    tid,           \* target_id of the running target operation
    todo,          \* targets of the listing delete_gateway has still to process
    elapsed,       \* time.time() - start_time of the running wait, in seconds
    steadyPolls,   \* status fetches issued by the running wait while steady
    lastFetch,     \* answer to the last status fetch of the running wait
    waitKind,      \* which _wait_for_* function ran last
    waitEnd,       \* how that wait ended
    steady,        \* every fetch of the wait answered CREATING and took no time
    fetchInBudget, \* the loop test elapsed < max_wait held when the last fetch was issued
    gatewayResult, \* dict returned by create_gateway
    deleteResult,  \* dict returned by delete_gateway
    raised,        \* the exception that ended the operation
    exitCode,      \* process exit code, NotExited while running
    listed,        \* targets returned by list_gateway_targets in this delete_gateway
    targetDeletes, \* targets for which delete_gateway_target was issued in this call
    confirmedAbsent, \* targets whose get_gateway_target answered not-found after that
    parentDeleteIssued, \* the control-plane delete_gateway was issued in this call
    failedStep,    \* the call or wait of this delete_gateway that failed
    deletedBefore, \* gateways for which an earlier delete_gateway returned success
    force,         \* --force
    queue,         \* gateways of the listing the sweep has still to visit
    results,       \* the sweep's report
    candidates,    \* listed gateways that pass the name filter
    sweepListed,   \* list_gateways answered the sweep
    attempted,     \* candidates handed to delete_gateway
    failedDeletes, \* candidates whose delete_gateway raised
    prompted,      \* <<step, what the user meant>> for every prompt issued
    bucketsPresent, \* remote: the storage buckets of the account
    objects,       \* remote: bucket -> keys of its objects
    stack,         \* remote: status of the template stack
    bucketQueue,   \* buckets of the listing cleanup_s3_data has still to visit
    bucket,        \* the bucket cleanup_s3_data is cleaning
    batch,         \* objects_to_delete
    s3Results,     \* the report of cleanup_s3_data
    stackResult,   \* cleanup_results["cloudformation_stack"]
    errors,        \* cleanup_results["errors"]
    objectDeletes, \* <<bucket, key>> named in a delete_objects request issued
    s3Attempts,    \* buckets for which delete_objects was issued
    bucketFailures, \* <<bucket, exception>> raised while cleaning a bucket
    stackDeleteIssued, \* delete_stack was issued
    stackCalls,    \* what describe_stacks, delete_stack and the waiter answered
    finished,      \* the sweeps of cleanup_all that have returned
    inventory,     \* ids of the gateways list_resources reports
    config,        \* the GatewayConfig read from --config-file
    authorizerSent, \* authorizerConfiguration['customJwt'] of the create_gateway request
    functionSeen,  \* answer of get_function in add_lambda_target
    targetCreateIssued \* create_gateway_target was issued in this invocation

remoteVars == <<gw, tgStatus, tgOwner, otherOps>>
waitVars == <<elapsed, steadyPolls, lastFetch, waitKind, waitEnd, steady,
              fetchInBudget>>
deleteVars == <<listed, targetDeletes, confirmedAbsent, parentDeleteIssued,
                failedStep>>
sweepVars == <<force, queue, results, candidates, sweepListed, attempted,
               failedDeletes>>
vars == <<gw, tgStatus, tgOwner, otherOps, invocations, pc, op, caller, gid,
          tid, todo, elapsed, steadyPolls, lastFetch, waitKind, waitEnd,
          steady, fetchInBudget,
          gatewayResult, deleteResult, raised, exitCode,
          listed, targetDeletes, confirmedAbsent, parentDeleteIssued,
          failedStep,
          deletedBefore, force, queue, results, candidates, sweepListed,
          attempted, failedDeletes, prompted, bucketsPresent, objects, stack,
          bucketQueue, bucket, batch, s3Results, stackResult, errors,
          objectDeletes, s3Attempts, bucketFailures, stackDeleteIssued,
          stackCalls,
          finished, inventory,
          config, authorizerSent, functionSeen, targetCreateIssued>>
storeVars == <<bucketsPresent, objects, stack>>
s3Vars == <<bucketQueue, bucket, batch, s3Results, objectDeletes, s3Attempts,
            bucketFailures>>
stackVars == <<stackResult, errors, stackDeleteIssued, stackCalls>>
cleanVars == <<s3Vars, stackVars, finished>>
requestVars == <<authorizerSent, functionSeen, targetCreateIssued>>

----------------------------------------------------------------------------
(* Bounds of the model *)

\* a control-plane call takes 0..MaxLatency times RetrySleep seconds
MaxLatency == 1
\* changes made to the remote by clients other than this program
MaxOtherOps == 1
\* invocations of the gateway manager CLI in one behaviour
MaxInvocations == 2

(* Constants of the program *)
MaxWait == 300
PollSleep == 10
RetrySleep == 5
\* WaiterConfig of the stack_delete_complete waiter
WaiterDelay == 30
WaiterMaxAttempts == 60

GatewayIds == {"g1", "g2", "g3"}
TargetIds == {"t1", "t2"}
NoGateway == "no-gateway"
NoTarget == "no-target"
\* no dict was returned
NoResult == [status |-> "no-result"]
NotExited == "running"
BucketIds == {"b1", "b2"}
NoBucket == "no-bucket"
\* delete_cloudformation_stack has made no call
NoStackCalls == [describe |-> "none", delete |-> "none", wait |-> "none",
                 attempts |-> 0]
\* no create_gateway request was sent
NoRequest == [authorizerName |-> "", tokenSource |-> "", issuer |-> "",
              audience |-> <<>>]

\* NONE: the id was never used.  GONE: the resource was deleted.
Statuses == {"NONE", "CREATING", "ACTIVE", "FAILED", "DELETING", "GONE"}
Exists(s) == s \notin {"NONE", "GONE"}

Latencies == {k * RetrySleep : k \in 0..MaxLatency}

----------------------------------------------------------------------------
(* Names.  A name is a sequence of characters; str.lower() maps each       *)
(* upper-case letter to its lower-case letter and keeps the rest.          *)

LowerChar(c) ==
    CASE c = "B" -> "b"
      [] c = "C" -> "c"
      [] c = "G" -> "g"
      [] c = "M" -> "m"
      [] c = "P" -> "p"
      [] c = "W" -> "w"
      [] c = "Y" -> "y"
      [] OTHER -> c

Lower(s) == [i \in 1..Len(s) |-> LowerChar(s[i])]

\* Python's `sub in s`
Contains(sub, s) ==
    \E i \in 1..(Len(s) - Len(sub) + 1) : SubSeq(s, i, i + Len(sub) - 1) = sub

\* the name the remote holds for each gateway id: "mcp-demo-gateway",
\* "unrelated-service", "My-Bedrock-GW"
GatewayName(g) ==
    CASE g = "g1" -> <<"m","c","p","-","d","e","m","o","-","g","a","t","e","w","a","y">>
      [] g = "g2" -> <<"u","n","r","e","l","a","t","e","d","-","s","e","r","v","i","c","e">>
      [] OTHER -> <<"M","y","-","B","e","d","r","o","c","k","-","G","W">>

----------------------------------------------------------------------------
(* The control-plane client facade: the answers the remote can give.       *)
(* "ResourceNotFound" and "Error" are exceptions raised by the call, every *)
(* other answer is a response.                                             *)

\* mutant: the except clause takes every exception for not-found
IsNotFoundOrAnyError(e) == e \in {"ResourceNotFound", "Error"}

\* mutant: the except clause never recognises not-found
IsNotFoundNever(e) == FALSE

\* the test `"ResourceNotFound" in str(e)` of the waits' except clauses
IsNotFound(e) == e = "ResourceNotFound"

\* get_gateway(gatewayId=g): a gateway being created may not be visible yet
GetGatewayAnswers(g) ==
    (CASE ~Exists(gw[g]) -> {"ResourceNotFound"}
       [] gw[g] = "CREATING" -> {"CREATING", "ResourceNotFound"}
       [] OTHER -> {gw[g]})
    \cup {"Error"}

\* get_gateway_target(gatewayId=g, targetId=t)
GetTargetAnswers(g, t) ==
    (CASE ~Exists(tgStatus[t]) \/ tgOwner[t] # g -> {"ResourceNotFound"}
       [] tgStatus[t] = "CREATING" -> {"CREATING", "ResourceNotFound"}
       [] OTHER -> {tgStatus[t]})
    \cup {"Error"}

\* the targets the remote holds for gateway g
RemoteTargets(g) == {t \in TargetIds : tgOwner[t] = g /\ Exists(tgStatus[t])}

\* list_gateway_targets(gatewayId=g): one page of the gateway's targets; the
\* remote decides the page size, and a page that is not the last carries a
\* nextToken
ListTargetsPages(g) ==
    {page \in SUBSET RemoteTargets(g) : page = RemoteTargets(g) \/ page # {}}

\* an unused target id (ids are opaque: the remote picks one)
FreshTarget == IF tgStatus["t1"] = "NONE" THEN "t1" ELSE "t2"

\* the id the remote gives the next gateway created
FreshGateway ==
    IF gw["g1"] = "NONE" THEN "g1" ELSE IF gw["g2"] = "NONE" THEN "g2" ELSE "g3"

----------------------------------------------------------------------------
(* Steps shared by the four _wait_for_* loops *)

StartWait(kind) ==
    /\ elapsed' = 0
    /\ steadyPolls' = 0
    /\ lastFetch' = "none"
    /\ waitKind' = kind
    /\ waitEnd' = "none"
    /\ steady' = TRUE
    /\ fetchInBudget' = TRUE

\* mutant: the loop test gives the wait half its budget
WithinHalfBudget(e) == 2 * e < MaxWait

\* the loop test `time.time() - start_time < max_wait`
WithinBudget(e) == e < MaxWait

\* mutant: the wait takes every status but FAILED for active
ActivationReachedUnlessFailed(status) == status \in {"ACTIVE", "CREATING"}

\* mutant: the wait returns for FAILED as it does for ACTIVE
ActivationReachedEvenFailed(status) == status \in {"ACTIVE", "FAILED"}

\* the test `status == 'ACTIVE'` of the activation waits
ActivationReached(status) == status = "ACTIVE"

\* a status fetch answered `answer` after `lat` seconds
Fetch(answer, lat) ==
    /\ steady' = (steady /\ answer = "CREATING" /\ lat = 0)
    /\ steadyPolls' = IF steady /\ answer = "CREATING" /\ lat = 0
                         THEN steadyPolls + 1 ELSE 0
    /\ lastFetch' = answer
    /\ fetchInBudget' = (elapsed < MaxWait)
    /\ UNCHANGED waitKind

\* mutant: the loop measures time from its latest iteration, so that the
\* clock it reads never advances
SleepAndRetryStaleClock(lat, d) ==
    /\ elapsed' = elapsed
    /\ waitEnd' = "none"

\* time.sleep(d) and back to the loop test
SleepAndRetry(lat, d) ==
    /\ elapsed' = elapsed + lat + d
    /\ waitEnd' = "none"

\* the loop test failed: raise TimeoutError
TimedOut ==
    /\ waitEnd' = "timeout"
    /\ UNCHANGED <<elapsed, steadyPolls, lastFetch, waitKind, steady,
                   fetchInBudget>>

\* the process ends: main returns (0) or calls sys.exit(1) in its except clause
ProcessExit(code, exc) ==
    /\ pc' = "done"
    /\ exitCode' = code
    /\ raised' = exc

\* the result report and the histories of one invocation, as at process start
FreshInvocation ==
    /\ caller' = "main"
    /\ gid' = NoGateway
    /\ tid' = NoTarget
    /\ todo' = {}
    /\ StartWait("none")
    /\ gatewayResult' = NoResult
    /\ deleteResult' = NoResult
    /\ raised' = "none"
    /\ exitCode' = NotExited
    /\ listed' = {}
    /\ targetDeletes' = {}
    /\ confirmedAbsent' = {}
    /\ parentDeleteIssued' = FALSE
    /\ failedStep' = "none"
    /\ queue' = <<>>
    /\ results' = <<>>
    /\ candidates' = {}
    /\ sweepListed' = FALSE
    /\ attempted' = {}
    /\ failedDeletes' = {}
    /\ prompted' = {}
    /\ bucketQueue' = <<>>
    /\ bucket' = NoBucket
    /\ batch' = {}
    /\ s3Results' = <<>>
    /\ stackResult' = NoResult
    /\ errors' = <<>>
    /\ objectDeletes' = {}
    /\ s3Attempts' = {}
    /\ bucketFailures' = {}
    /\ stackDeleteIssued' = FALSE
    /\ stackCalls' = NoStackCalls
    /\ finished' = {}
    /\ inventory' = {}
    /\ authorizerSent' = NoRequest
    /\ functionSeen' = "none"
    /\ targetCreateIssued' = FALSE

----------------------------------------------------------------------------
(* gateway_manager.py: --action create *)

\* the fields of GatewayConfig that create_gateway reads
Regions == {"us-west-2", "eu-west-1", "ap-northeast-1"}
PoolIds == {"us-west-2_Ab12", "eu-west-1_Cd34", "https://issuer.example.com"}
ClientIds == {"client-1", "client-2", "us-west-2_Ab12"}
ConfigNames == {"mcp-demo-gateway", "gw"}
Domains == {"demo.auth.us-west-2.amazoncognito.com", "https://issuer.example.com"}
Configs ==
    [gateway_name : ConfigNames, region : Regions,
     cognito_user_pool_id : PoolIds, cognito_client_id : ClientIds,
     cognito_domain : Domains]

\* the config file of the runs in which the config does not matter
DefaultConfig ==
    [gateway_name |-> "mcp-demo-gateway", region |-> "us-west-2",
     cognito_user_pool_id |-> "us-west-2_Ab12", cognito_client_id |-> "client-1",
     cognito_domain |-> "demo.auth.us-west-2.amazoncognito.com"]

\* mutant: the issuer names the region of the default config
IssuerOfDefaultRegion(c) ==
    "https://cognito-idp." \o "us-west-2" \o ".amazonaws.com/"
        \o c.cognito_user_pool_id

\* the f-string of the 'issuer' entry
Issuer(c) ==
    "https://cognito-idp." \o c.region \o ".amazonaws.com/"
        \o c.cognito_user_pool_id

\* authorizerConfiguration['customJwt'] as create_gateway builds it
AuthorizerConfiguration(c) ==
    [authorizerName |-> c.gateway_name \o "-authorizer",
     tokenSource |-> "authorization",
     issuer |-> Issuer(c),
     audience |-> <<c.cognito_client_id>>]

\* main, create: create_gateway up to the start of the activation wait.
\* The identity lookup or the create call may fail; the remote names the
\* new gateway with an id that was never used.
CreateGateway ==
    /\ pc = "idle"
    /\ invocations' = invocations + 1
    /\ op' = "create"
    /\ force' = FALSE
    /\ gw[FreshGateway] = "NONE"
    /\ \E answer \in {"ok", "Error", "IdentityError"} :
         /\ authorizerSent' = IF answer = "IdentityError" THEN authorizerSent
                               ELSE AuthorizerConfiguration(config)
         /\ IF answer = "ok"
               THEN /\ gw' = [gw EXCEPT ![FreshGateway] = "CREATING"]
                    /\ gid' = FreshGateway
                    /\ pc' = "wait_gateway_active"
                    /\ StartWait("gateway_active")
                    /\ UNCHANGED <<raised, exitCode>>
               ELSE /\ ProcessExit(1, answer)
                    /\ UNCHANGED <<gw, gid, waitVars>>
    /\ UNCHANGED <<tgStatus, tgOwner, otherOps, caller, tid, todo,
                   gatewayResult, deleteResult, deleteVars, deletedBefore,
                   queue, results, candidates, sweepListed, attempted, failedDeletes>>
    /\ UNCHANGED <<storeVars, cleanVars, prompted, inventory, config, functionSeen,
                   targetCreateIssued>>

\* mutant: status FAILED raises nothing
ExceptionInTryIgnoringFailed(answer) ==
    IF answer \in {"ResourceNotFound", "Error"} THEN answer ELSE "none"

\* the exception raised inside the try block of an activation wait for a
\* fetch that answered `answer`: the call's own exception, or the one the
\* loop raises for status FAILED ("... failed to activate")
ExceptionInTry(answer) ==
    IF answer = "FAILED" THEN "Failed"
    ELSE IF answer \in {"ResourceNotFound", "Error"} THEN answer
    ELSE "none"

\* how a wait that re-raises exception e has ended
WaitEndOf(e) == IF e = "Failed" THEN "failed" ELSE "error"

\* create_gateway's return value
CreatedHandle(g) == [gateway_id |-> g, status |-> "created"]

\* mutant: the except clause deletes the gateway it has created
ReraiseOfCreateRollsBack(g) ==
    /\ gw' = [gw EXCEPT ![g] = "DELETING"]
    /\ UNCHANGED <<tgStatus, tgOwner, otherOps>>

\* what the except clauses of create_gateway and add_lambda_target, and
\* that of main, do to the remote for gateway g: they log the error and
\* re-raise or exit, no call is made
ReraiseOfCreate(g) == UNCHANGED remoteVars

\* one iteration of the loop of _wait_for_gateway_active, and what
\* create_gateway and main do when the wait ends
WaitForGatewayActive ==
    /\ pc = "wait_gateway_active"
    /\ IF WithinBudget(elapsed)
          THEN \E answer \in GetGatewayAnswers(gid), lat \in Latencies :
                 /\ Fetch(answer, lat)
                 /\ IF ActivationReached(answer)
                       THEN /\ waitEnd' = "returned"
                            /\ elapsed' = elapsed + lat
                            /\ gatewayResult' = CreatedHandle(gid)
                            /\ pc' = "add_lambda_target"
                            /\ UNCHANGED <<remoteVars, raised, exitCode>>
                    ELSE IF ExceptionInTry(answer) = "none"
                       THEN /\ SleepAndRetry(lat, PollSleep)
                            /\ UNCHANGED <<remoteVars, pc, raised, exitCode,
                                           gatewayResult>>
                    ELSE IF IsNotFound(ExceptionInTry(answer))
                       THEN /\ SleepAndRetry(lat, RetrySleep)
                            /\ UNCHANGED <<remoteVars, pc, raised, exitCode,
                                           gatewayResult>>
                    ELSE /\ waitEnd' = WaitEndOf(ExceptionInTry(answer))
                         /\ elapsed' = elapsed + lat
                         /\ ReraiseOfCreate(gid)
                         /\ ProcessExit(1, ExceptionInTry(answer))
                         /\ UNCHANGED gatewayResult
          ELSE /\ TimedOut
               /\ ReraiseOfCreate(gid)
               /\ ProcessExit(1, "Timeout")
               /\ UNCHANGED gatewayResult
    /\ UNCHANGED <<invocations, op, caller, gid, tid, todo, deleteResult,
                   deleteVars, deletedBefore, sweepVars>>
    /\ UNCHANGED <<storeVars, cleanVars, prompted, inventory, config, requestVars>>

\* mutant: add_lambda_target goes on whatever get_function answers
FunctionFoundAlways(describe) == TRUE

\* get_function returned: the try block goes on to create_gateway_target
FunctionFound(describe) == describe = "ok"

\* add_lambda_target up to the start of the activation wait: get_function,
\* then create_gateway_target
AddLambdaTarget ==
    /\ pc = "add_lambda_target"
    /\ \E describe \in {"ok", "ResourceNotFound", "Error"},
          create \in {"ok", "Error"} :
         /\ functionSeen' = describe
         /\ IF ~FunctionFound(describe)
               THEN /\ ProcessExit(1, describe)
                    /\ UNCHANGED <<tgStatus, tgOwner, tid, waitVars,
                                   targetCreateIssued>>
               ELSE /\ targetCreateIssued' = TRUE
                    /\ IF create = "ok" /\ tgStatus[FreshTarget] = "NONE"
                          THEN /\ tgStatus' = [tgStatus EXCEPT ![FreshTarget] = "CREATING"]
                               /\ tgOwner' = [tgOwner EXCEPT ![FreshTarget] = gid]
                               /\ tid' = FreshTarget
                               /\ pc' = "wait_target_active"
                               /\ StartWait("target_active")
                               /\ UNCHANGED <<raised, exitCode>>
                          ELSE /\ ProcessExit(1, "Error")
                               /\ UNCHANGED <<tgStatus, tgOwner, tid, waitVars>>
    /\ UNCHANGED <<gw, otherOps, invocations, op, caller, gid, todo, gatewayResult,
                   deleteResult, deleteVars, deletedBefore, sweepVars>>
    /\ UNCHANGED <<storeVars, cleanVars, prompted, inventory, config, authorizerSent>>

\* one iteration of the loop of _wait_for_target_active, and what
\* add_lambda_target and main do when the wait ends
WaitForTargetActive ==
    /\ pc = "wait_target_active"
    /\ IF WithinBudget(elapsed)
          THEN \E answer \in GetTargetAnswers(gid, tid), lat \in Latencies :
                 /\ Fetch(answer, lat)
                 /\ IF ActivationReached(answer)
                       THEN /\ waitEnd' = "returned"
                            /\ elapsed' = elapsed + lat
                            /\ ProcessExit(0, "none")
                            /\ UNCHANGED remoteVars
                    ELSE IF ExceptionInTry(answer) = "none"
                       THEN /\ SleepAndRetry(lat, PollSleep)
                            /\ UNCHANGED <<remoteVars, pc, raised, exitCode>>
                    ELSE IF IsNotFound(ExceptionInTry(answer))
                       THEN /\ SleepAndRetry(lat, RetrySleep)
                            /\ UNCHANGED <<remoteVars, pc, raised, exitCode>>
                    ELSE /\ waitEnd' = WaitEndOf(ExceptionInTry(answer))
                         /\ elapsed' = elapsed + lat
                         /\ ReraiseOfCreate(gid)
                         /\ ProcessExit(1, ExceptionInTry(answer))
          ELSE /\ TimedOut
               /\ ReraiseOfCreate(gid)
               /\ ProcessExit(1, "Timeout")
    /\ UNCHANGED <<invocations, op, caller, gid, tid, todo, gatewayResult,
                   deleteResult, deleteVars, deletedBefore, sweepVars>>
    /\ UNCHANGED <<storeVars, cleanVars, prompted, inventory, config, requestVars>>

----------------------------------------------------------------------------
(* gateway_manager.py: --action info and --action list *)

\* mutant: get_gateway_info calls delete_gateway of the control plane
InfoCallDeletes(g) ==
    /\ gw' = [gw EXCEPT ![g] = IF Exists(gw[g]) THEN "DELETING" ELSE gw[g]]
    /\ UNCHANGED <<tgStatus, tgOwner, otherOps>>

\* what get_gateway(gatewayId=g) does to the remote: nothing
InfoCall(g) == UNCHANGED remoteVars

\* main, info: get_gateway_info returns the response, or logs and re-raises
MainInfo ==
    /\ pc = "idle"
    /\ invocations' = invocations + 1
    /\ op' = "info"
    /\ force' = FALSE
    /\ \E g \in GatewayIds :
         /\ InfoCall(g)
         /\ \E answer \in GetGatewayAnswers(g) :
              IF answer \in {"ResourceNotFound", "Error"}
                 THEN ProcessExit(1, answer)
                 ELSE ProcessExit(0, "none")
    /\ UNCHANGED inventory
    /\ UNCHANGED <<caller, gid, tid, todo, waitVars, gatewayResult, deleteResult,
                   deleteVars, deletedBefore, queue, results, candidates,
                   sweepListed, attempted, failedDeletes>>
    /\ UNCHANGED <<storeVars, cleanVars, prompted, config, requestVars>>

\* main, list: list_gateways returns the summaries, or logs and re-raises
MainList ==
    /\ pc = "idle"
    /\ invocations' = invocations + 1
    /\ op' = "list"
    /\ force' = FALSE
    /\ \E answer \in {"ok", "Error"} :
         IF answer = "ok" THEN ProcessExit(0, "none") ELSE ProcessExit(1, answer)
    /\ UNCHANGED <<remoteVars, inventory>>
    /\ UNCHANGED <<caller, gid, tid, todo, waitVars, gatewayResult, deleteResult,
                   deleteVars, deletedBefore, queue, results, candidates,
                   sweepListed, attempted, failedDeletes>>
    /\ UNCHANGED <<storeVars, cleanVars, prompted, config, requestVars>>

----------------------------------------------------------------------------
(* gateway_manager.py: delete_gateway, called by main (--action delete)    *)
(* and by the sweep                                                        *)

\* the record the sweep appends for gateway g
GatewayRecord(g, status) ==
    [gateway_id |-> g, gateway_name |-> GatewayName(g), status |-> status]

\* the record appended by the outer except clause of cleanup_gateways
ListFailureRecord ==
    [gateway_id |-> NoGateway, gateway_name |-> <<>>, status |-> "error"]

\* mutant: the try branch appends its record twice
RecordDeletedTwice(g) ==
    results' = Append(Append(results, GatewayRecord(g, "deleted")),
                      GatewayRecord(g, "deleted"))

\* cleanup_gateways after delete_gateway(g) returned: the try branch
RecordDeleted(g) == results' = Append(results, GatewayRecord(g, "deleted"))

\* mutant: the inner except clause logs the error and records nothing
RecordErrorDropped(g) == results' = results

\* cleanup_gateways after delete_gateway(g) raised: the inner except clause
RecordError(g) == results' = Append(results, GatewayRecord(g, "error"))

\* delete_gateway returns {'status': 'deleted'}: main prints it and ends,
\* the sweep records the outcome and goes on
DeleteGatewayReturns ==
    /\ deletedBefore' = deletedBefore \cup {gid}
    /\ IF caller = "main"
          THEN /\ deleteResult' = [status |-> "deleted"]
               /\ ProcessExit(0, "none")
               /\ UNCHANGED <<results, failedDeletes>>
          ELSE /\ RecordDeleted(gid)
               /\ pc' = "sweep"
               /\ UNCHANGED <<deleteResult, raised, exitCode, failedDeletes>>

\* mutant: the except clause of delete_gateway logs the error and returns
\* {'status': 'deleted'}
DeleteGatewayRaisesNothing(exc) == DeleteGatewayReturns

\* delete_gateway re-raises exception exc: main exits with 1, the sweep
\* records the error and goes on
DeleteGatewayRaises(exc) ==
    /\ UNCHANGED <<deletedBefore, deleteResult>>
    /\ IF caller = "main"
          THEN /\ ProcessExit(1, exc)
               /\ UNCHANGED <<results, failedDeletes>>
          ELSE /\ RecordError(gid)
               /\ failedDeletes' = failedDeletes \cup {gid}
               /\ pc' = "sweep"
               /\ UNCHANGED <<raised, exitCode>>

\* entry of delete_gateway(g)
BeginDeleteGateway(g, who) ==
    /\ gid' = g
    /\ caller' = who
    /\ pc' = "list_targets"
    /\ tid' = NoTarget
    /\ todo' = {}
    /\ listed' = {}
    /\ targetDeletes' = {}
    /\ confirmedAbsent' = {}
    /\ parentDeleteIssued' = FALSE
    /\ failedStep' = "none"

\* main, delete
MainDelete ==
    /\ pc = "idle"
    /\ invocations' = invocations + 1
    /\ op' = "delete"
    /\ force' = FALSE
    /\ \E g \in GatewayIds : BeginDeleteGateway(g, "main")
    /\ UNCHANGED <<remoteVars, waitVars, gatewayResult, deleteResult, raised,
                   exitCode, deletedBefore, queue, results, candidates, sweepListed,
                   attempted, failedDeletes>>
    /\ UNCHANGED <<storeVars, cleanVars, prompted, inventory, config, requestVars>>

\* list_gateway_targets(gatewayId=gid)
ListTargetsAnswers(g) ==
    IF Exists(gw[g]) THEN {"ok", "Error"} ELSE {"ResourceNotFound", "Error"}

ListGatewayTargets ==
    /\ pc = "list_targets"
    /\ \E answer \in ListTargetsAnswers(gid) :
         /\ failedStep' = IF answer = "ok" THEN failedStep ELSE "list"
         /\ IF answer = "ok"
               THEN /\ \E page \in ListTargetsPages(gid) :
                         /\ todo' = page
                         /\ listed' = page
                    /\ pc' = "delete_loop"
                    /\ UNCHANGED <<deletedBefore, deleteResult, raised, exitCode,
                                   results, failedDeletes>>
               ELSE /\ DeleteGatewayRaises(answer)
                    /\ UNCHANGED <<todo, listed>>
    /\ UNCHANGED <<remoteVars, invocations, op, caller, gid, tid, waitVars, gatewayResult,
                   targetDeletes, confirmedAbsent, parentDeleteIssued,
                   force, queue, candidates, sweepListed, attempted>>
    /\ UNCHANGED <<storeVars, cleanVars, prompted, inventory, config, requestVars>>

\* delete_gateway_target(gatewayId=g, targetId=t)
DeleteTargetAnswers(g, t) ==
    IF Exists(tgStatus[t]) /\ tgOwner[t] = g
       THEN {"ok", "Error"}
       ELSE {"ResourceNotFound", "Error"}

\* mutant: the loop body issues the delete and goes on to the next target
AfterTargetDeleteNoWait == "delete_loop"

\* the statement after delete_gateway_target in the loop body: the call of
\* _wait_for_target_deleted
AfterTargetDelete == "wait_target_deleted"

\* the body of the for loop up to the start of the deletion wait
DeleteGatewayTarget ==
    /\ pc = "delete_loop"
    /\ \E t \in todo : \E answer \in DeleteTargetAnswers(gid, t) :
         /\ tid' = t
         /\ targetDeletes' = targetDeletes \cup {t}
         /\ failedStep' = IF answer = "ok" THEN failedStep ELSE "target_delete"
         /\ IF answer = "ok"
               THEN /\ tgStatus' = [tgStatus EXCEPT ![t] = "DELETING"]
                    /\ pc' = AfterTargetDelete
                    /\ StartWait("target_deleted")
                    /\ UNCHANGED <<deletedBefore, deleteResult, raised,
                                   exitCode, results, failedDeletes>>
               ELSE /\ DeleteGatewayRaises(answer)
                    /\ UNCHANGED <<tgStatus, waitVars>>
    /\ UNCHANGED <<gw, tgOwner, otherOps, invocations, op, caller, gid, todo, gatewayResult,
                   listed, confirmedAbsent, parentDeleteIssued,
                   force, queue, candidates, sweepListed, attempted>>
    /\ UNCHANGED <<storeVars, cleanVars, prompted, inventory, config, requestVars>>

\* mutant: the deletion wait swallows every exception and polls again
ExceptionOfFetchSwallowed(answer) == "none"

\* mutant: the deletion wait raises for status FAILED, as the activation
\* waits do
ExceptionOfFetchInspectsStatus(answer) ==
    IF answer = "FAILED" THEN "Failed"
    ELSE IF answer \in {"ResourceNotFound", "Error"} THEN answer
    ELSE "none"

\* the exception a deletion wait catches for a fetch that answered `answer`
ExceptionOfFetch(answer) ==
    IF answer \in {"ResourceNotFound", "Error"} THEN answer ELSE "none"

\* one iteration of the loop of _wait_for_target_deleted
WaitForTargetDeleted ==
    /\ pc = "wait_target_deleted"
    /\ IF WithinBudget(elapsed)
          THEN \E answer \in GetTargetAnswers(gid, tid), lat \in Latencies :
                 /\ Fetch(answer, lat)
                 /\ failedStep' = IF answer = "Error" THEN "target_wait"
                                   ELSE failedStep
                 /\ IF ExceptionOfFetch(answer) = "none"
                       THEN /\ SleepAndRetry(lat, PollSleep)
                            /\ UNCHANGED <<pc, todo, confirmedAbsent,
                                           deletedBefore, deleteResult, raised,
                                           exitCode, results, failedDeletes>>
                    ELSE IF IsNotFound(ExceptionOfFetch(answer))
                       THEN /\ waitEnd' = "returned"
                            /\ elapsed' = elapsed + lat
                            /\ confirmedAbsent' = confirmedAbsent \cup
                                 (IF answer = "ResourceNotFound" THEN {tid} ELSE {})
                            /\ todo' = todo \ {tid}
                            /\ pc' = "delete_loop"
                            /\ UNCHANGED <<deletedBefore, deleteResult, raised,
                                           exitCode, results, failedDeletes>>
                    ELSE /\ waitEnd' = "error"
                         /\ elapsed' = elapsed + lat
                         /\ DeleteGatewayRaises(ExceptionOfFetch(answer))
                         /\ UNCHANGED <<todo, confirmedAbsent>>
          ELSE /\ TimedOut
               /\ failedStep' = "target_wait"
               /\ DeleteGatewayRaises("Timeout")
               /\ UNCHANGED <<todo, confirmedAbsent>>
    /\ UNCHANGED <<remoteVars, invocations, op, caller, gid, tid, gatewayResult, listed,
                   targetDeletes, parentDeleteIssued, force, queue, candidates, sweepListed,
                   attempted>>
    /\ UNCHANGED <<storeVars, cleanVars, prompted, inventory, config, requestVars>>

\* delete_gateway(gatewayId=g) of the control plane
DeleteGatewayAnswers(g) ==
    IF Exists(gw[g]) THEN {"ok", "Error"} ELSE {"ResourceNotFound", "Error"}

\* after the for loop: the control-plane delete of the gateway itself
DeleteGatewayCall ==
    /\ pc = "delete_loop"
    /\ todo = {}
    /\ parentDeleteIssued' = TRUE
    /\ \E answer \in DeleteGatewayAnswers(gid) :
         /\ failedStep' = IF answer = "ok" THEN failedStep ELSE "gateway_delete"
         /\ IF answer = "ok"
               THEN /\ gw' = [gw EXCEPT ![gid] = "DELETING"]
                    /\ pc' = "wait_gateway_deleted"
                    /\ StartWait("gateway_deleted")
                    /\ UNCHANGED <<deletedBefore, deleteResult, raised, exitCode,
                                   results, failedDeletes>>
               ELSE /\ DeleteGatewayRaises(answer)
                    /\ UNCHANGED <<gw, waitVars>>
    /\ UNCHANGED <<tgStatus, tgOwner, otherOps, invocations, op, caller, gid, tid, todo,
                   gatewayResult, listed, targetDeletes, confirmedAbsent,
                   force, queue, candidates, sweepListed, attempted>>
    /\ UNCHANGED <<storeVars, cleanVars, prompted, inventory, config, requestVars>>

\* one iteration of the loop of _wait_for_gateway_deleted
WaitForGatewayDeleted ==
    /\ pc = "wait_gateway_deleted"
    /\ IF WithinBudget(elapsed)
          THEN \E answer \in GetGatewayAnswers(gid), lat \in Latencies :
                 /\ Fetch(answer, lat)
                 /\ failedStep' = IF answer = "Error" THEN "gateway_wait"
                                   ELSE failedStep
                 /\ IF ExceptionOfFetch(answer) = "none"
                       THEN /\ SleepAndRetry(lat, PollSleep)
                            /\ UNCHANGED <<pc, deletedBefore, deleteResult,
                                           raised, exitCode, results,
                                           failedDeletes>>
                    ELSE IF IsNotFound(ExceptionOfFetch(answer))
                       THEN /\ waitEnd' = "returned"
                            /\ elapsed' = elapsed + lat
                            /\ DeleteGatewayReturns
                    ELSE /\ waitEnd' = "error"
                         /\ elapsed' = elapsed + lat
                         /\ DeleteGatewayRaises(ExceptionOfFetch(answer))
          ELSE /\ TimedOut
               /\ failedStep' = "gateway_wait"
               /\ DeleteGatewayRaises("Timeout")
    /\ UNCHANGED <<remoteVars, invocations, op, caller, gid, tid, todo, gatewayResult,
                   listed, targetDeletes, confirmedAbsent, parentDeleteIssued,
                   force, queue, candidates, sweepListed, attempted>>
    /\ UNCHANGED <<storeVars, cleanVars, prompted, inventory, config, requestVars>>

----------------------------------------------------------------------------
(* cleanup.py: cleanup_all (--action cleanup-all): the order of its steps *)

\* mutant: the stack step comes before the object-store sweep
StepAfterStackFirst(step) ==
    CASE step = "gateways" -> "stack_step"
      [] step = "stack" -> "s3_list"
      [] OTHER -> "return"

\* the statement cleanup_all executes after each of its steps
StepAfter(step) ==
    CASE step = "gateways" -> "s3_list"
      [] step = "s3" -> "stack_step"
      [] OTHER -> "return"

\* what the sweeps of cleanup_all leave alone
sweepFrame == <<remoteVars, invocations, op, caller, gid, tid, todo, waitVars,
                gatewayResult, deleteResult, raised, deleteVars, deletedBefore,
                sweepVars, inventory, config, requestVars>>

----------------------------------------------------------------------------
(* cleanup.py: cleanup_gateways (--action cleanup-gateways) *)

\* mutant: the filter compares the name as it is written
IsOurGatewayCaseSensitive(name) ==
    \/ Contains(<<"m","c","p">>, name)
    \/ Contains(<<"b","e","d","r","o","c","k">>, name)

\* the name filter of the sweep
IsOurGateway(name) ==
    \/ Contains(<<"m","c","p">>, Lower(name))
    \/ Contains(<<"b","e","d","r","o","c","k">>, Lower(name))

\* str.strip() for the blank
Strip(s) ==
    IF s = <<>> THEN s
    ELSE IF Head(s) = " " THEN
        (IF Len(s) = 1 THEN <<>>
         ELSE IF s[Len(s)] = " " THEN SubSeq(s, 2, Len(s) - 1) ELSE Tail(s))
    ELSE IF s[Len(s)] = " " THEN SubSeq(s, 1, Len(s) - 1)
    ELSE s

\* what the user may type at the prompt
Replies == {<<"y">>, <<"Y","e","s">>, <<" ","y"," ">>, <<"n">>, <<>>,
            <<"y","e","p">>}
\* a closed stdin, for which input() raises EOFError
EndOfFile == <<"EOF">>
Inputs == Replies \cup {EndOfFile}

\* _confirm_action for a line the user typed
ConfirmAction(reply) == Lower(Strip(reply)) \in {<<"y">>, <<"y","e","s">>}

\* the replies that acknowledge a prompt: y or yes, in any case, blanks
\* around
Acknowledged(reply) ==
    IF reply = EndOfFile THEN "eof"
    ELSE IF reply \in {<<"y">>, <<"Y","e","s">>, <<" ","y"," ">>} THEN "yes"
    ELSE "no"

\* list_gateways: the gateways the remote holds, in the order of their ids
GatewayListing ==
    SelectSeq(<<"g1", "g2", "g3">>, LAMBDA g : Exists(gw[g]))

SeqRange(q) == {q[i] : i \in 1..Len(q)}

\* cleanup_gateways returns its report: to main, which prints it, or to
\* cleanup_all, which goes on
CleanupGatewaysEnds(action) ==
    IF action = "cleanup-all"
       THEN /\ pc' = StepAfter("gateways")
            /\ finished' = finished \cup {"gateways"}
            /\ UNCHANGED exitCode
       ELSE /\ pc' = "done"
            /\ exitCode' = 0
            /\ UNCHANGED finished

\* main up to the start of the loop of cleanup_gateways: list_gateways
CleanupGatewaysBegin(action) ==
    /\ pc = "idle"
    /\ invocations' = invocations + 1
    /\ op' = action
    /\ \E f \in BOOLEAN : force' = f
    /\ \E answer \in {"ok", "Error"} :
         IF answer = "ok"
            THEN /\ queue' = GatewayListing
                 /\ candidates' =
                      {g \in SeqRange(GatewayListing) : IsOurGateway(GatewayName(g))}
                 /\ sweepListed' = TRUE
                 /\ pc' = "sweep"
                 /\ UNCHANGED <<results, exitCode, finished>>
            ELSE /\ results' = Append(results, ListFailureRecord)
                 /\ CleanupGatewaysEnds(action)
                 /\ UNCHANGED <<queue, candidates, sweepListed>>
    /\ UNCHANGED <<remoteVars, caller, gid, tid, todo, waitVars, gatewayResult,
                   deleteResult, raised, deleteVars, deletedBefore, attempted,
                   failedDeletes>>
    /\ UNCHANGED <<storeVars, s3Vars, stackVars, prompted, inventory, config,
                   requestVars>>

\* main, cleanup-gateways
CleanupGatewaysList == CleanupGatewaysBegin("cleanup-gateways")

\* main, cleanup-all: step 1 of cleanup_all
CleanupAll == CleanupGatewaysBegin("cleanup-all")

\* the locals of the wait that has returned are gone
ForgetWait == StartWait("none")

\* mutant: the for loop ends after its first iteration
NextGatewayBreaks == queue' = <<>>

\* the for loop of cleanup_gateways goes on with the next gateway
NextGateway == queue' = Tail(queue)

\* one iteration of the for loop of cleanup_gateways, up to the call of
\* delete_gateway
CleanupGatewaysVisit ==
    /\ pc = "sweep"
    /\ queue # <<>>
    /\ ForgetWait
    /\ NextGateway
    /\ IF ~IsOurGateway(GatewayName(Head(queue)))
          THEN UNCHANGED <<pc, caller, gid, tid, todo, deleteVars, results,
                           attempted, exitCode, prompted, finished>>
          ELSE \E reply \in (IF force THEN {<<"y">>} ELSE Inputs) :
                 /\ prompted' =
                      IF force THEN prompted
                      ELSE prompted \cup {<<Head(queue), Acknowledged(reply)>>}
                 /\ IF reply = EndOfFile
                       THEN /\ results' = Append(results, ListFailureRecord)
                            /\ CleanupGatewaysEnds(op)
                            /\ UNCHANGED <<caller, gid, tid, todo, deleteVars,
                                           attempted>>
                    ELSE IF force \/ ConfirmAction(reply)
                       THEN /\ BeginDeleteGateway(Head(queue), "sweep")
                            /\ attempted' = attempted \cup {Head(queue)}
                            /\ UNCHANGED <<results, exitCode, finished>>
                    ELSE UNCHANGED <<pc, caller, gid, tid, todo, deleteVars,
                                     results, attempted, exitCode, finished>>
    /\ UNCHANGED <<remoteVars, invocations, op, gatewayResult, deleteResult,
                   raised, deletedBefore, force, candidates, sweepListed, failedDeletes>>
    /\ UNCHANGED <<storeVars, s3Vars, stackVars, inventory, config, requestVars>>

\* the for loop is over: cleanup_gateways returns the report
CleanupGatewaysReturn ==
    /\ pc = "sweep"
    /\ queue = <<>>
    /\ ForgetWait
    /\ CleanupGatewaysEnds(op)
    /\ UNCHANGED <<remoteVars, invocations, op, caller, gid, tid, todo,
                   gatewayResult, deleteResult, raised, deleteVars,
                   deletedBefore, force, queue, results, candidates, sweepListed, attempted,
                   failedDeletes>>
    /\ UNCHANGED <<storeVars, s3Vars, stackVars, prompted, inventory, config,
                   requestVars>>

----------------------------------------------------------------------------
(* cleanup.py: cleanup_s3_data *)

\* the names of the buckets: "mcp-artifacts", "app-logs"
BucketName(b) ==
    CASE b = "b1" -> <<"m","c","p","-","a","r","t","i","f","a","c","t","s">>
      [] OTHER -> <<"a","p","p","-","l","o","g","s">>

\* the keys of the objects: "mcp-data/a", "mcp-data/b", "mcp-data-old/c",
\* "logs/x"
KeyA == <<"m","c","p","-","d","a","t","a","/","a">>
KeyB == <<"m","c","p","-","d","a","t","a","/","b">>
KeyOld == <<"m","c","p","-","d","a","t","a","-","o","l","d","/","c">>
KeyLog == <<"l","o","g","s","/","x">>

\* Prefix='mcp-data/'
DataPrefix == <<"m","c","p","-","d","a","t","a","/">>

StartsWith(prefix, k) ==
    Len(k) >= Len(prefix) /\ SubSeq(k, 1, Len(prefix)) = prefix

\* the objects of bucket b that list_objects_v2 selects for the prefix
ObjectsUnder(b, prefix) == {k \in objects[b] : StartsWith(prefix, k)}

\* list_buckets: the buckets of the account, in the order of their names
BucketListing ==
    SelectSeq(<<"b2", "b1">>, LAMBDA b : b \in bucketsPresent)

\* list_objects_v2(Bucket=b, Prefix='mcp-data/', MaxKeys=1)
ProbeAnswers(b) ==
    IF b \in bucketsPresent THEN {"ok", "Error"} ELSE {"NoSuchBucket", "Error"}

\* _bucket_has_mcp_data: KeyCount > 0, and False for every exception
HasMcpData(b, probe) == probe = "ok" /\ ObjectsUnder(b, DataPrefix) # {}

\* the bucket filter of the sweep
IsOurBucket(b, probe) ==
    \/ Contains(<<"m","c","p">>, Lower(BucketName(b)))
    \/ HasMcpData(b, probe)

\* list_objects_v2(Bucket=b, Prefix='mcp-data/')
ListObjectsAnswers(b) ==
    IF b \in bucketsPresent THEN {"ok", "Error"} ELSE {"NoSuchBucket", "Error"}

\* response.get('Contents', []): one page of the objects under the prefix;
\* the store returns some or all of them, and a page that is not the last
\* carries a continuation token
ObjectPages(b) ==
    {page \in SUBSET ObjectsUnder(b, DataPrefix) :
        page = ObjectsUnder(b, DataPrefix) \/ page # {}}

\* delete_objects(Bucket=b, Delete=...): "partial" is a response that lists
\* under 'Errors' a key the store could not delete
DeleteObjectsAnswers(b) ==
    IF b \in bucketsPresent THEN {"ok", "partial", "Error"}
    ELSE {"NoSuchBucket", "Error"}

\* the keys the store removes for a delete_objects request naming `keys`
RemovedSets(answer, keys) ==
    CASE answer = "ok" -> {keys}
      [] answer = "partial" -> {keys \ {k} : k \in keys}
      [] OTHER -> {{}}

\* the records of cleanup_s3_data; an 'error' record carries no count
BucketRecord(b, status, n) ==
    [bucket_name |-> b, status |-> status, objects_deleted |-> n]

\* the record appended by the outer except clause of cleanup_s3_data
BucketListFailureRecord == BucketRecord(NoBucket, "error", 0)

\* mutant: the except clause takes no failure for a missing bucket
IsNoSuchBucketNever(e) == FALSE

\* the test `"NoSuchBucket" not in str(e)` decides whether the failure is
\* recorded
IsNoSuchBucket(e) == e = "NoSuchBucket"

\* mutant: the inner except clause records nothing
RecordBucketErrorDropped(b, e) == s3Results

\* the report after the inner except clause of cleanup_s3_data caught e
RecordBucketError(b, e) ==
    IF IsNoSuchBucket(e) THEN s3Results
    ELSE Append(s3Results, BucketRecord(b, "error", 0))

\* cleanup_s3_data returns its report to cleanup_all
CleanupS3Ends ==
    /\ pc' = StepAfter("s3")
    /\ finished' = finished \cup {"s3"}

\* cleanup_s3_data up to the start of its loop: list_buckets
CleanupS3List ==
    /\ pc = "s3_list"
    /\ \E answer \in {"ok", "Error"} :
         IF answer = "ok"
            THEN /\ bucketQueue' = BucketListing
                 /\ pc' = "s3_sweep"
                 /\ UNCHANGED <<s3Results, finished>>
            ELSE /\ s3Results' = Append(s3Results, BucketListFailureRecord)
                 /\ CleanupS3Ends
                 /\ UNCHANGED bucketQueue
    /\ UNCHANGED <<bucket, batch, objectDeletes, s3Attempts, bucketFailures,
                   stackVars, storeVars, prompted, exitCode, sweepFrame>>

\* one iteration of the for loop of cleanup_s3_data, up to the call of
\* delete_objects
CleanupS3Visit ==
    /\ pc = "s3_sweep"
    /\ bucketQueue # <<>>
    /\ bucketQueue' = Tail(bucketQueue)
    /\ bucket' = Head(bucketQueue)
    /\ \E probe \in ProbeAnswers(Head(bucketQueue)),
          answer \in ListObjectsAnswers(Head(bucketQueue)) :
         IF ~IsOurBucket(Head(bucketQueue), probe)
            THEN /\ batch' = {}
                 /\ UNCHANGED <<pc, s3Results, bucketFailures>>
         ELSE IF answer = "ok"
            THEN /\ \E page \in ObjectPages(Head(bucketQueue)) :
                      /\ batch' = page
                      /\ pc' = IF page = {} THEN "s3_sweep" ELSE "s3_delete"
                 /\ UNCHANGED <<s3Results, bucketFailures>>
         ELSE /\ batch' = {}
              /\ s3Results' = RecordBucketError(Head(bucketQueue), answer)
              /\ bucketFailures' =
                   bucketFailures \cup {<<Head(bucketQueue), answer>>}
              /\ UNCHANGED pc
    /\ UNCHANGED <<objectDeletes, s3Attempts, stackVars, finished, storeVars,
                   prompted, exitCode, sweepFrame>>

\* the rest of the iteration: delete_objects and the record
CleanupS3Delete ==
    /\ pc = "s3_delete"
    /\ s3Attempts' = s3Attempts \cup {bucket}
    /\ objectDeletes' = objectDeletes \cup {<<bucket, k>> : k \in batch}
    /\ \E answer \in DeleteObjectsAnswers(bucket) :
         /\ \E removed \in RemovedSets(answer, batch) :
              objects' = [objects EXCEPT ![bucket] = @ \ removed]
         /\ s3Results' =
              IF answer \in {"ok", "partial"}
                 THEN Append(s3Results,
                             BucketRecord(bucket, "cleaned", Cardinality(batch)))
                 ELSE RecordBucketError(bucket, answer)
         /\ bucketFailures' =
              IF answer \in {"ok", "partial"} THEN bucketFailures
              ELSE bucketFailures \cup {<<bucket, answer>>}
    /\ pc' = "s3_sweep"
    /\ UNCHANGED <<bucketQueue, bucket, batch, stackVars, finished,
                   bucketsPresent, stack, prompted, exitCode, sweepFrame>>

\* the for loop is over: cleanup_s3_data returns the report
CleanupS3Return ==
    /\ pc = "s3_sweep"
    /\ bucketQueue = <<>>
    /\ CleanupS3Ends
    /\ UNCHANGED <<s3Vars, stackVars, storeVars, prompted, exitCode, sweepFrame>>

----------------------------------------------------------------------------
(* cleanup.py: the stack step of cleanup_all, delete_cloudformation_stack *)

\* step 3 of cleanup_all: `if force or self._confirm_action(...)`; an
\* exception of the prompt is caught by the except clause of cleanup_all
CleanupAllStackStep ==
    /\ pc = "stack_step"
    /\ \E reply \in (IF force THEN {<<"y">>} ELSE Inputs) :
         /\ prompted' = IF force THEN prompted
                         ELSE prompted \cup {<<"stack", Acknowledged(reply)>>}
         /\ IF reply = EndOfFile
               THEN /\ errors' = Append(errors, "EOFError")
                    /\ pc' = "done"
                    /\ exitCode' = 0
            ELSE IF force \/ ConfirmAction(reply)
               THEN /\ pc' = "delete_stack"
                    /\ UNCHANGED <<errors, exitCode>>
            ELSE /\ pc' = StepAfter("stack")
                 /\ UNCHANGED <<errors, exitCode>>
    /\ UNCHANGED <<s3Vars, stackResult, stackDeleteIssued, stackCalls, finished, storeVars,
                   sweepFrame>>

\* describe_stacks(StackName=...)
DescribeStacksAnswers ==
    IF Exists(stack) THEN {"ok", "Error"} ELSE {"does not exist", "Error"}

\* the dict delete_cloudformation_stack returns
StackRecord(status) == [status |-> status]

\* mutant: the inner except clause re-raises every exception
IsStackMissingNever(e) == FALSE

\* the test `"does not exist" in str(e)` of the inner except clause
IsStackMissing(e) == e = "does not exist"

\* the attempts after which the waiter may end: it polls every WaiterDelay
\* seconds and gives up after WaiterMaxAttempts attempts
WaiterAttempts == {1, 2, WaiterMaxAttempts}

\* delete_cloudformation_stack: describe_stacks, delete_stack and the
\* stack_delete_complete waiter; every failure becomes an 'error' record
DeleteCloudformationStack ==
    /\ pc = "delete_stack"
    /\ \E described \in DescribeStacksAnswers, deleted \in {"ok", "Error"},
          waited \in {"ok", "Error"}, attempts \in WaiterAttempts :
         IF described # "ok"
            THEN /\ stackResult' = StackRecord(IF IsStackMissing(described)
                                                  THEN "not_found" ELSE "error")
                 /\ stackCalls' = [describe |-> described, delete |-> "none",
                                   wait |-> "none", attempts |-> 0]
                 /\ UNCHANGED <<stack, stackDeleteIssued>>
         ELSE /\ stackDeleteIssued' = TRUE
              /\ IF deleted = "Error"
                    THEN /\ stackResult' = StackRecord("error")
                         /\ stackCalls' = [describe |-> described,
                                           delete |-> deleted,
                                           wait |-> "none", attempts |-> 0]
                         /\ UNCHANGED stack
                 ELSE /\ stackCalls' = [describe |-> described,
                                         delete |-> deleted, wait |-> waited,
                                         attempts |-> attempts]
                      /\ IF waited = "Error"
                            THEN /\ stackResult' = StackRecord("error")
                                 /\ stack' = "DELETING"
                            ELSE /\ stackResult' = StackRecord("deleted")
                                 /\ stack' = "GONE"
    /\ pc' = StepAfter("stack")
    /\ UNCHANGED <<s3Vars, errors, finished, bucketsPresent, objects, prompted,
                   exitCode, sweepFrame>>

\* cleanup_all returns the report, main prints it
CleanupAllReturn ==
    /\ pc = "return"
    /\ pc' = "done"
    /\ exitCode' = 0
    /\ UNCHANGED <<cleanVars, storeVars, prompted, sweepFrame>>

\* another client deletes a bucket
OtherClientDeletesBucket ==
    /\ otherOps < MaxOtherOps
    /\ otherOps' = otherOps + 1
    /\ \E b \in bucketsPresent :
         /\ bucketsPresent' = bucketsPresent \ {b}
         /\ objects' = [objects EXCEPT ![b] = {}]
    /\ UNCHANGED <<gw, tgStatus, tgOwner, stack, invocations, pc, op, caller, gid,
                   tid, todo, waitVars, gatewayResult, deleteResult, raised,
                   exitCode, deleteVars, deletedBefore, sweepVars, cleanVars,
                   prompted, inventory, config, requestVars>>

----------------------------------------------------------------------------
(* cleanup.py: list_resources (--action list) *)

\* the name filter of the inventory
IsListedGateway(name) == Contains(<<"m","c","p">>, Lower(name))

\* main, list: list_resources reads the gateways and the stack; both
\* failures are logged, the inventory is returned and printed
ListResources ==
    /\ pc = "idle"
    /\ invocations' = invocations + 1
    /\ op' = "inventory"
    /\ \E f \in BOOLEAN : force' = f
    /\ \E answer \in {"ok", "Error"}, described \in {"ok", "Error"} :
         inventory' = IF answer = "ok"
                         THEN {g \in SeqRange(GatewayListing) :
                                 IsListedGateway(GatewayName(g))}
                         ELSE {}
    /\ ProcessExit(0, "none")
    /\ UNCHANGED remoteVars
    /\ UNCHANGED <<caller, gid, tid, todo, waitVars, gatewayResult, deleteResult,
                   deleteVars, deletedBefore, queue, results, candidates,
                   sweepListed, attempted, failedDeletes>>
    /\ UNCHANGED <<storeVars, cleanVars, prompted, config, requestVars>>

----------------------------------------------------------------------------
(* The remote control plane and its other clients *)

\* a gateway being created becomes ACTIVE or FAILED
RemoteGatewaySettles ==
    /\ \E g \in GatewayIds, s \in {"ACTIVE", "FAILED"} :
         /\ gw[g] = "CREATING"
         /\ gw' = [gw EXCEPT ![g] = s]
    /\ UNCHANGED <<tgStatus, tgOwner, otherOps, invocations, pc, op, caller, gid, tid, todo,
                   waitVars, gatewayResult, deleteResult, raised, exitCode,
                   deleteVars, deletedBefore, sweepVars>>
    /\ UNCHANGED <<storeVars, cleanVars, prompted, inventory, config, requestVars>>

\* a target being created becomes ACTIVE or FAILED
RemoteTargetSettles ==
    /\ \E t \in TargetIds, s \in {"ACTIVE", "FAILED"} :
         /\ tgStatus[t] = "CREATING"
         /\ tgStatus' = [tgStatus EXCEPT ![t] = s]
    /\ UNCHANGED <<gw, tgOwner, otherOps, invocations, pc, op, caller, gid, tid, todo,
                   waitVars, gatewayResult, deleteResult, raised, exitCode,
                   deleteVars, deletedBefore, sweepVars>>
    /\ UNCHANGED <<storeVars, cleanVars, prompted, inventory, config, requestVars>>

\* a gateway being deleted disappears
RemoteGatewayRemoved ==
    /\ \E g \in GatewayIds :
         /\ gw[g] = "DELETING"
         /\ gw' = [gw EXCEPT ![g] = "GONE"]
    /\ UNCHANGED <<tgStatus, tgOwner, otherOps, invocations, pc, op, caller, gid, tid, todo,
                   waitVars, gatewayResult, deleteResult, raised, exitCode,
                   deleteVars, deletedBefore, sweepVars>>
    /\ UNCHANGED <<storeVars, cleanVars, prompted, inventory, config, requestVars>>

\* a target being deleted disappears
RemoteTargetRemoved ==
    /\ \E t \in TargetIds :
         /\ tgStatus[t] = "DELETING"
         /\ tgStatus' = [tgStatus EXCEPT ![t] = "GONE"]
    /\ UNCHANGED <<gw, tgOwner, otherOps, invocations, pc, op, caller, gid, tid, todo,
                   waitVars, gatewayResult, deleteResult, raised, exitCode,
                   deleteVars, deletedBefore, sweepVars>>
    /\ UNCHANGED <<storeVars, cleanVars, prompted, inventory, config, requestVars>>

\* the remote gives up the deletion of a gateway: its status becomes FAILED
RemoteGatewayDeletionFails ==
    /\ \E g \in GatewayIds :
         /\ gw[g] = "DELETING"
         /\ gw' = [gw EXCEPT ![g] = "FAILED"]
    /\ UNCHANGED <<tgStatus, tgOwner, otherOps, invocations, pc, op, caller, gid, tid, todo,
                   waitVars, gatewayResult, deleteResult, raised, exitCode,
                   deleteVars, deletedBefore, sweepVars>>
    /\ UNCHANGED <<storeVars, cleanVars, prompted, inventory, config, requestVars>>

\* the remote gives up the deletion of a target: its status becomes FAILED
RemoteTargetDeletionFails ==
    /\ \E t \in TargetIds :
         /\ tgStatus[t] = "DELETING"
         /\ tgStatus' = [tgStatus EXCEPT ![t] = "FAILED"]
    /\ UNCHANGED <<gw, tgOwner, otherOps, invocations, pc, op, caller, gid, tid, todo,
                   waitVars, gatewayResult, deleteResult, raised, exitCode,
                   deleteVars, deletedBefore, sweepVars>>
    /\ UNCHANGED <<storeVars, cleanVars, prompted, inventory, config, requestVars>>

\* another client of the control plane attaches a target to a gateway
OtherClientAttachesTarget ==
    /\ otherOps < MaxOtherOps
    /\ tgStatus[FreshTarget] = "NONE"
    /\ \E g \in GatewayIds :
         /\ gw[g] = "ACTIVE"
         /\ tgOwner' = [tgOwner EXCEPT ![FreshTarget] = g]
    /\ tgStatus' = [tgStatus EXCEPT ![FreshTarget] = "ACTIVE"]
    /\ otherOps' = otherOps + 1
    /\ UNCHANGED <<gw, invocations, pc, op, caller, gid, tid, todo, waitVars, gatewayResult,
                   deleteResult, raised, exitCode, deleteVars, deletedBefore,
                   sweepVars>>
    /\ UNCHANGED <<storeVars, cleanVars, prompted, inventory, config, requestVars>>

----------------------------------------------------------------------------
(* The next invocation of the CLI: the process holds no state of the last *)
NextInvocation ==
    /\ pc = "done"
    /\ invocations < MaxInvocations
    /\ pc' = "idle"
    /\ op' = "none"
    /\ force' = FALSE
    /\ FreshInvocation
    /\ UNCHANGED <<remoteVars, invocations, deletedBefore, storeVars, config>>

\* the state of a process that has just started
ProcessStart ==
    /\ otherOps = 0
    /\ invocations = 0
    /\ pc = "idle"
    /\ op = "none"
    /\ caller = "main"
    /\ gid = NoGateway
    /\ tid = NoTarget
    /\ todo = {}
    /\ elapsed = 0
    /\ steadyPolls = 0
    /\ lastFetch = "none"
    /\ waitKind = "none"
    /\ waitEnd = "none"
    /\ steady = TRUE
    /\ fetchInBudget = TRUE
    /\ gatewayResult = NoResult
    /\ deleteResult = NoResult
    /\ raised = "none"
    /\ exitCode = NotExited
    /\ listed = {}
    /\ targetDeletes = {}
    /\ confirmedAbsent = {}
    /\ parentDeleteIssued = FALSE
    /\ failedStep = "none"
    /\ deletedBefore = {}
    /\ force = FALSE
    /\ queue = <<>>
    /\ results = <<>>
    /\ candidates = {}
    /\ sweepListed = FALSE
    /\ attempted = {}
    /\ failedDeletes = {}
    /\ prompted = {}
    /\ bucketQueue = <<>>
    /\ bucket = NoBucket
    /\ batch = {}
    /\ s3Results = <<>>
    /\ stackResult = NoResult
    /\ errors = <<>>
    /\ objectDeletes = {}
    /\ s3Attempts = {}
    /\ bucketFailures = {}
    /\ stackDeleteIssued = FALSE
    /\ stackCalls = NoStackCalls
    /\ finished = {}
    /\ inventory = {}
    /\ authorizerSent = NoRequest
    /\ functionSeen = "none"
    /\ targetCreateIssued = FALSE

\* an account without buckets and without the template stack
NoStore ==
    /\ bucketsPresent = {}
    /\ objects = [b \in BucketIds |-> {}]
    /\ stack = "NONE"

\* the remote a run of the gateway manager finds: gateway g1 may exist, with
\* none, one or both of the targets
Init ==
    /\ gw \in {[g \in GatewayIds |-> "NONE"],
               [g \in GatewayIds |-> IF g = "g1" THEN "ACTIVE" ELSE "NONE"]}
    /\ \E n \in 0..2 :
         /\ n > 0 => gw["g1"] = "ACTIVE"
         /\ tgStatus = [t \in TargetIds |->
                          IF (t = "t1" /\ n >= 1) \/ (t = "t2" /\ n >= 2)
                             THEN "ACTIVE" ELSE "NONE"]
    /\ tgOwner = [t \in TargetIds |->
                    IF tgStatus[t] = "NONE" THEN NoGateway ELSE "g1"]
    /\ NoStore
    /\ config = DefaultConfig
    /\ ProcessStart

\* a run of create_gateway for every config file
ConfigInit ==
    /\ gw = [g \in GatewayIds |-> "NONE"]
    /\ tgStatus = [t \in TargetIds |-> "NONE"]
    /\ tgOwner = [t \in TargetIds |-> NoGateway]
    /\ NoStore
    /\ config \in Configs
    /\ ProcessStart

ConfigSpec == ConfigInit /\ [][CreateGateway]_vars

\* gateway_manager.py main
Manager ==
    \/ MainInfo
    \/ MainList
    \/ CreateGateway
    \/ WaitForGatewayActive
    \/ AddLambdaTarget
    \/ WaitForTargetActive
    \/ MainDelete
    \/ ListGatewayTargets
    \/ DeleteGatewayTarget
    \/ WaitForTargetDeleted
    \/ DeleteGatewayCall
    \/ WaitForGatewayDeleted
    \/ NextInvocation

Remote ==
    \/ RemoteGatewaySettles
    \/ RemoteTargetSettles
    \/ RemoteGatewayRemoved
    \/ RemoteTargetRemoved
    \/ OtherClientAttachesTarget

Next == Manager \/ Remote

Spec == Init /\ [][Next]_vars

\* a control plane on which a deletion may fail, so that a gateway or a
\* target being deleted reports status FAILED
FaultyRemote ==
    \/ RemoteGatewayDeletionFails
    \/ RemoteTargetDeletionFails

FaultySpec == Init /\ [][Manager \/ Remote \/ FaultyRemote]_vars

\* the gateway manager alone with the control plane: no other client
OwnRemote ==
    \/ RemoteGatewaySettles
    \/ RemoteTargetSettles
    \/ RemoteGatewayRemoved
    \/ RemoteTargetRemoved

AloneSpec == Init /\ [][Manager \/ OwnRemote]_vars

\* The process is the only thread of the program and runs whenever it can:
\* every call returns and every sleep ends.
LiveSpec == Init /\ [][Next]_vars /\ WF_vars(Manager)

\* the remote a run of the cleanup CLI finds: any of the gateways may exist,
\* g1 and g3 with a target
SomeGateways ==
    /\ gw \in [GatewayIds -> {"NONE", "ACTIVE"}]
    /\ tgOwner \in [TargetIds -> {NoGateway, "g1", "g3"}]
    /\ tgOwner["t1"] = NoGateway => tgOwner["t2"] = NoGateway
    /\ \A t \in TargetIds : tgOwner[t] # NoGateway => gw[tgOwner[t]] = "ACTIVE"
    /\ tgStatus = [t \in TargetIds |->
                     IF tgOwner[t] = NoGateway THEN "NONE" ELSE "ACTIVE"]

SweepInit ==
    /\ SomeGateways
    /\ NoStore
    /\ config = DefaultConfig
    /\ ProcessStart

\* cleanup.py main
Cleanup ==
    \/ ListResources
    \/ CleanupGatewaysList
    \/ CleanupGatewaysVisit
    \/ CleanupGatewaysReturn
    \/ ListGatewayTargets
    \/ DeleteGatewayTarget
    \/ WaitForTargetDeleted
    \/ DeleteGatewayCall
    \/ WaitForGatewayDeleted

\* no gateway or target is being created while the sweep runs
SweepRemote ==
    \/ RemoteGatewayRemoved
    \/ RemoteTargetRemoved
    \/ OtherClientAttachesTarget

SweepNext == Cleanup \/ SweepRemote

SweepSpec == SweepInit /\ [][SweepNext]_vars

\* the account a run of cleanup-all finds: the buckets and their objects,
\* and the template stack
SomeStore ==
    /\ bucketsPresent \in SUBSET BucketIds
    /\ \E o1 \in {{KeyA, KeyB, KeyLog}, {KeyLog}}, o2 \in {{KeyA, KeyOld}, {}} :
         objects = [b \in BucketIds |->
                      IF b \notin bucketsPresent THEN {}
                      ELSE IF b = "b1" THEN o1 ELSE o2]
    /\ stack \in {"NONE", "EXISTS"}

\* the gateways a run of cleanup-all finds: none, or g1 (with or without a
\* target) and one of g2, g3
FewGateways ==
    /\ \E others \in {{}, {"g1", "g2"}, {"g1", "g3"}} :
         gw = [g \in GatewayIds |-> IF g \in others THEN "ACTIVE" ELSE "NONE"]
    /\ \E owner \in {NoGateway, "g1"} :
         /\ owner = "g1" => gw["g1"] = "ACTIVE"
         /\ tgOwner = [t \in TargetIds |-> IF t = "t1" THEN owner ELSE NoGateway]
    /\ tgStatus = [t \in TargetIds |->
                     IF tgOwner[t] = NoGateway THEN "NONE" ELSE "ACTIVE"]

AllInit ==
    /\ FewGateways
    /\ SomeStore
    /\ config = DefaultConfig
    /\ ProcessStart

\* cleanup.py main, cleanup-all
CleanupAllProgram ==
    \/ CleanupAll
    \/ CleanupGatewaysVisit
    \/ CleanupGatewaysReturn
    \/ ListGatewayTargets
    \/ DeleteGatewayTarget
    \/ WaitForTargetDeleted
    \/ DeleteGatewayCall
    \/ WaitForGatewayDeleted
    \/ CleanupS3List
    \/ CleanupS3Visit
    \/ CleanupS3Delete
    \/ CleanupS3Return
    \/ CleanupAllStackStep
    \/ DeleteCloudformationStack
    \/ CleanupAllReturn

AllRemote ==
    \/ RemoteGatewayRemoved
    \/ RemoteTargetRemoved
    \/ OtherClientDeletesBucket

AllNext == CleanupAllProgram \/ AllRemote

AllSpec == AllInit /\ [][AllNext]_vars

\* the read-only actions of both CLIs, run one after another while another
\* client changes the remote
ReadOnly ==
    \/ MainInfo
    \/ MainList
    \/ ListResources

ReadNext == ReadOnly \/ NextInvocation \/ OtherClientAttachesTarget

ReadInit ==
    /\ SomeGateways
    /\ SomeStore
    /\ config = DefaultConfig
    /\ ProcessStart

ReadSpec == ReadInit /\ [][ReadNext]_vars

----------------------------------------------------------------------------
(* Properties *)

ActivationWaits == {"gateway_active", "target_active"}
DeletionWaits == {"target_deleted", "gateway_deleted"}
WaitPc(kind) == "wait_" \o kind
WaitPcs == {"wait_gateway_active", "wait_target_active",
            "wait_target_deleted", "wait_gateway_deleted"}
CeilDiv(a, b) == (a + b - 1) \div b
CountStatus(status) ==
    Cardinality({i \in 1..Len(results) : results[i].status = status})

\* C1: delete_gateway issues the control-plane delete of the gateway only
\* after, for every target the listing returned, delete_gateway_target was
\* issued and a later get_gateway_target answered not-found.
C1_ParentDeleteAfterListedTargetsAbsent ==
    parentDeleteIssued =>
        /\ listed \subseteq targetDeletes
        /\ listed \subseteq confirmedAbsent

C1_Witness ==
    /\ parentDeleteIssued
    /\ Cardinality(listed) = 2
    /\ caller = "main"

\* C2: at the step that issues the control-plane delete of a gateway, the
\* remote holds no target of that gateway, listed or not.
C2_NoTargetWhenParentDeleteIssued ==
    [][(~parentDeleteIssued /\ parentDeleteIssued') => RemoteTargets(gid) = {}]_vars

\* C3: a delete_gateway for a gateway that an earlier delete_gateway deleted
\* with success, answered not-found by the control plane, returns
\* {'status': 'deleted'} and does not raise.
C3_SecondDeleteSucceeds ==
    (pc = "done" /\ op = "delete" /\ gid \in deletedBefore /\ raised # "Error")
        => (exitCode = 0 /\ raised = "none" /\ deleteResult = [status |-> "deleted"])

\* C4 (as claimed): when create_gateway has returned, its wait fetched ACTIVE
\* within the budget and the status of the returned handle is ACTIVE.
C4_HandleStatusActive ==
    pc = "add_lambda_target" =>
        /\ lastFetch = "ACTIVE"
        /\ fetchInBudget
        /\ gatewayResult # NoResult
        /\ gatewayResult.status = "ACTIVE"

\* C4 (amended): when create_gateway has returned, its wait fetched ACTIVE
\* for the created gateway within the budget, and the status of the returned
\* handle is the constant 'created'.
C4_ReturnsAfterActiveWithCreated ==
    /\ pc = "add_lambda_target" =>
         /\ waitKind = "gateway_active"
         /\ lastFetch = "ACTIVE"
         /\ fetchInBudget
         /\ gatewayResult # NoResult
    /\ gatewayResult # NoResult =>
         /\ gatewayResult.status = "created"
         /\ gatewayResult.gateway_id = gid

C4_Witness ==
    /\ pc = "add_lambda_target"
    /\ gatewayResult # NoResult
    /\ elapsed > PollSleep

\* C5: a fetch of create_gateway's wait that answers FAILED ends the
\* operation with the activation failure, and no fetch follows it.
C5_FailedRaisesAtOnce ==
    (waitKind = "gateway_active" /\ lastFetch = "FAILED") =>
        /\ pc = "done"
        /\ waitEnd = "failed"
        /\ raised = "Failed"
        /\ exitCode = 1
        /\ gatewayResult = NoResult

C5_Witness ==
    /\ waitKind = "gateway_active"
    /\ lastFetch = "FAILED"
    /\ elapsed > PollSleep

\* C6: a create_gateway wait whose fetches all answer CREATING, time passing
\* only in the sleeps, ends with the timeout error after
\* ceil(max_wait / interval) fetches, give or take one.
C6_TimeoutAfterCeilPolls ==
    (waitKind = "gateway_active" /\ steady /\ pc = "done") =>
        /\ waitEnd = "timeout"
        /\ raised = "Timeout"
        /\ exitCode = 1
        /\ steadyPolls >= CeilDiv(MaxWait, PollSleep) - 1
        /\ steadyPolls <= CeilDiv(MaxWait, PollSleep) + 1

C6_Witness ==
    /\ waitKind = "gateway_active"
    /\ steady
    /\ pc = "done"
    /\ steadyPolls = 30

\* C7: in an activation wait a not-found answer never ends the wait: the
\* wait goes on, and ends only by the timeout error once max_wait has passed.
C7_NotFoundIsRetried ==
    (waitKind \in ActivationWaits /\ lastFetch = "ResourceNotFound") =>
        \/ /\ pc = WaitPc(waitKind)
           /\ waitEnd = "none"
           /\ raised = "none"
           /\ exitCode = NotExited
        \/ /\ pc = "done"
           /\ waitEnd = "timeout"
           /\ raised = "Timeout"
           /\ elapsed >= MaxWait

C7_Witness ==
    /\ waitKind = "target_active"
    /\ lastFetch = "ResourceNotFound"
    /\ waitEnd = "timeout"

\* C8: in a deletion wait the fetch that answers not-found ends the wait
\* with success: the wait returns, nothing is raised, no fetch follows.
C8_NotFoundEndsDeletionWait ==
    [][(pc \in {"wait_target_deleted", "wait_gateway_deleted"}
          /\ lastFetch' = "ResourceNotFound")
        => /\ waitEnd' = "returned"
           /\ raised' = "none"
           /\ pc' \notin WaitPcs
           /\ pc = "wait_target_deleted" => (pc' = "delete_loop" /\ tid \notin todo')
           /\ pc = "wait_gateway_deleted" =>
                (pc' = "done" /\ exitCode' = 0 /\ deleteResult' = [status |-> "deleted"])
       ]_vars

C8_Witness ==
    /\ waitKind = "gateway_deleted"
    /\ lastFetch = "ResourceNotFound"
    /\ waitEnd = "returned"
    /\ confirmedAbsent # {}

\* C9: every wait ends, whatever the control plane answers.
C9_EveryWaitEnds ==
    \A w \in WaitPcs : (pc = w) ~> (pc # w)

C9_Witness ==
    /\ waitEnd = "timeout"
    /\ waitKind = "gateway_deleted"
    /\ lastFetch = "DELETING"

\* C10 (as claimed): a sweep over N candidates of which K fail deletion
\* returns N records, K 'error' and N - K 'deleted'.
C10_OneRecordPerCandidate ==
    (pc = "done" /\ op = "cleanup-gateways" /\ sweepListed) =>
        /\ Len(results) = Cardinality(candidates)
        /\ CountStatus("error") = Cardinality(failedDeletes)
        /\ CountStatus("deleted") = Cardinality(candidates) - Cardinality(failedDeletes)
        /\ raised = "none"

\* C10 (amended): when list_gateways answered and every one of the N
\* candidates was handed to delete_gateway (force, or its prompt
\* acknowledged), K of them failing, the sweep returns N records, K 'error'
\* and N - K 'deleted', and raises nothing.
C10_OneRecordPerAttemptedCandidate ==
    (pc = "done" /\ op = "cleanup-gateways" /\ sweepListed
       /\ attempted = candidates) =>
        /\ Len(results) = Cardinality(candidates)
        /\ CountStatus("error") = Cardinality(failedDeletes)
        /\ CountStatus("deleted") = Cardinality(candidates) - Cardinality(failedDeletes)
        /\ \A i \in 1..Len(results) : results[i].gateway_id \in candidates
        /\ raised = "none"
        /\ exitCode = 0

C10_Witness ==
    /\ pc = "done"
    /\ op = "cleanup-gateways"
    /\ sweepListed
    /\ attempted = candidates
    /\ Cardinality(candidates) = 2
    /\ Cardinality(failedDeletes) = 1
    /\ ~force

\* C18: add_lambda_target issues create_gateway_target only after
\* get_function has returned; when get_function answers that the function
\* does not exist, the operation ends with that error, no target creation
\* call is issued and no target wait is started.
C18_CreateTargetOnlyAfterDescribe ==
    /\ targetCreateIssued => functionSeen = "ok"
    /\ functionSeen \in {"ResourceNotFound", "Error"} =>
         /\ pc = "done"
         /\ exitCode = 1
         /\ raised = functionSeen
         /\ ~targetCreateIssued
         /\ waitKind # "target_active"
         /\ tid = NoTarget
         /\ RemoteTargets(gid) = {t \in RemoteTargets(gid) : tgStatus[t] = "ACTIVE"}

C18_Witness ==
    /\ functionSeen = "ResourceNotFound"
    /\ gatewayResult = CreatedHandle(gid)
    /\ pc = "done"

\* C19 (as claimed): the authorizer configuration sent by create_gateway
\* holds as issuer a value the GatewayConfig supplies, and as audience the
\* list holding exactly the configured client id.
C19_IssuerVerbatim ==
    authorizerSent # NoRequest =>
        /\ authorizerSent.issuer \in
              {config.gateway_name, config.region, config.cognito_user_pool_id,
               config.cognito_client_id, config.cognito_domain}
        /\ authorizerSent.audience = <<config.cognito_client_id>>

\* C19 (amended): the issuer sent is the URL
\* https://cognito-idp.<region>.amazonaws.com/<user pool id> built from the
\* region and the user pool id of the GatewayConfig, and the audience is the
\* list holding exactly the configured client id.
C19_IssuerBuiltFromRegionAndPool ==
    authorizerSent # NoRequest =>
        /\ authorizerSent.issuer =
              "https://cognito-idp." \o config.region \o ".amazonaws.com/"
                  \o config.cognito_user_pool_id
        /\ authorizerSent.audience = <<config.cognito_client_id>>
        /\ Len(authorizerSent.audience) = 1

C19_Witness ==
    /\ authorizerSent # NoRequest
    /\ config.region = "eu-west-1"
    /\ config.cognito_user_pool_id = "https://issuer.example.com"
    /\ pc = "wait_gateway_active"

ReadOnlyOps == {"info", "list", "inventory"}

\* C20: get_gateway_info, list_gateways and list_resources change nothing on
\* the remote (no gateway, target, object or stack is created or deleted),
\* start no wait and end the invocation at once.
C20_ReadOnlyOperations ==
    [][(pc = "idle" /\ op' \in ReadOnlyOps) =>
          /\ gw' = gw
          /\ tgStatus' = tgStatus
          /\ tgOwner' = tgOwner
          /\ bucketsPresent' = bucketsPresent
          /\ objects' = objects
          /\ stack' = stack
          /\ pc' = "done"
          /\ waitKind' = "none"
          /\ elapsed' = 0
          /\ lastFetch' = "none"
          /\ ~parentDeleteIssued'
          /\ targetDeletes' = {}
          /\ attempted' = {}
          /\ objectDeletes' = {}
          /\ ~stackDeleteIssued'
          /\ ~targetCreateIssued'
          /\ authorizerSent' = NoRequest
      ]_vars

C20_Witness ==
    /\ op = "inventory"
    /\ pc = "done"
    /\ inventory # {}
    /\ invocations = 2
    /\ \E t \in TargetIds : tgStatus[t] = "ACTIVE"
    /\ objects["b1"] # {}
    /\ stack = "EXISTS"

\* the steps for which a prompt was issued, acknowledged, declined
Offered == {p[1] : p \in prompted}
AcknowledgedSteps == {p[1] : p \in {q \in prompted : q[2] = "yes"}}
DeclinedSteps == {p[1] : p \in {q \in prompted : q[2] = "no"}}
GatewayPromptRaised == \E p \in prompted : p[2] = "eof" /\ p[1] \in GatewayIds

\* C11: without the force flag a delete_gateway sequence, a delete_objects
\* request and delete_stack are issued only for a step whose prompt the user
\* has acknowledged.
C11_DestructiveOnlyIfForcedOrAcknowledged ==
    ~force =>
        /\ attempted \subseteq AcknowledgedSteps
        /\ s3Attempts \subseteq AcknowledgedSteps
        /\ stackDeleteIssued => "stack" \in AcknowledgedSteps

\* C12: a declined gateway is not handed to delete_gateway and a declined
\* stack step issues no delete_stack; when the sweep has ended and no prompt
\* has raised, every candidate gateway has been offered; cleanup_all ends
\* only after the object-store sweep has returned and the stack step was
\* reached.
C12_DeclineSkipsOnlyThatStep ==
    /\ DeclinedSteps \cap attempted = {}
    /\ \A g \in DeclinedSteps \cap GatewayIds : gw[g] = "ACTIVE"
    /\ "stack" \in DeclinedSteps =>
         (~stackDeleteIssued /\ stackResult = NoResult /\ stack \in {"NONE", "EXISTS"})
    /\ (pc = "done" /\ sweepListed /\ ~force /\ ~GatewayPromptRaised) =>
         candidates \subseteq Offered
    /\ (pc = "done" /\ op = "cleanup-all") =>
         /\ finished = {"gateways", "s3"}
         /\ force \/ "stack" \in Offered

C12_Witness ==
    /\ pc = "done"
    /\ op = "cleanup-all"
    /\ "g1" \in DeclinedSteps
    /\ "g3" \in attempted
    /\ s3Attempts # {}
    /\ "stack" \in DeclinedSteps

\* the gateways whose name holds 'mcp' or 'bedrock' in some case:
\* "mcp-demo-gateway" and "My-Bedrock-GW", not "unrelated-service"
KeywordGateways == {"g1", "g3"}
RecordedGateways == {results[i].gateway_id : i \in 1..Len(results)}

C14_ExactlyPrefixObjectsDeleted ==
    [][(pc = "s3_delete" /\ Len(s3Results') > Len(s3Results)
          /\ s3Results'[Len(s3Results')].status = "cleaned") =>
          /\ objects[bucket] \ objects'[bucket] = ObjectsUnder(bucket, DataPrefix)
          /\ {k \in objects'[bucket] : StartsWith(DataPrefix, k)} = {}
          /\ s3Results'[Len(s3Results')].objects_deleted =
                Cardinality(objects[bucket] \ objects'[bucket])
      ]_vars

\* C15: delete_stack is issued only after the gateway sweep and the
\* object-store sweep have both returned, and once it has been issued no
\* gateway is handed to delete_gateway, no target or gateway delete and no
\* delete_objects request is issued.
C15_StackDeletionLast ==
    [][/\ (~stackDeleteIssued /\ stackDeleteIssued') =>
             /\ finished = {"gateways", "s3"}
             /\ pc \notin {"sweep", "list_targets", "delete_loop",
                            "wait_target_deleted", "wait_gateway_deleted",
                            "s3_list", "s3_sweep", "s3_delete"}
       /\ stackDeleteIssued =>
             /\ stackDeleteIssued'
             /\ attempted' = attempted
             /\ targetDeletes' = targetDeletes
             /\ parentDeleteIssued' = parentDeleteIssued
             /\ objectDeletes' = objectDeletes
             /\ s3Attempts' = s3Attempts
             /\ otherOps' = otherOps => objects' = objects
      ]_vars

C15_Witness ==
    /\ stackDeleteIssued
    /\ targetDeletes # {}
    /\ parentDeleteIssued
    /\ objectDeletes # {}
    /\ pc = "done"

GatewayErrorRecords ==
    {results[i].gateway_id : i \in {j \in 1..Len(results) : results[j].status = "error"}}
BucketErrorRecords ==
    {s3Results[i].bucket_name :
        i \in {j \in 1..Len(s3Results) : s3Results[j].status = "error"}}
FailedBuckets == {f[1] : f \in bucketFailures}
GenuinelyFailedBuckets ==
    {f[1] : f \in {h \in bucketFailures : h[2] # "NoSuchBucket"}}

\* what C16 says of a cleanup_all that has ended, for the set of buckets
\* whose failures have to be recorded
FailSoft(buckets) ==
    (pc = "done" /\ op = "cleanup-all") =>
        /\ raised = "none"
        /\ exitCode = 0
        /\ failedDeletes \subseteq GatewayErrorRecords
        /\ buckets \subseteq BucketErrorRecords
        /\ (sweepListed /\ ~GatewayPromptRaised) =>
              candidates \subseteq attempted \cup DeclinedSteps
        /\ bucketQueue = <<>>
        /\ finished = {"gateways", "s3"}
        /\ IF force THEN stackResult # NoResult ELSE "stack" \in Offered

RecordsOfGateway(g) == {i \in 1..Len(results) : results[i].gateway_id = g}
RecordsOfBucket(b) == {i \in 1..Len(s3Results) : s3Results[i].bucket_name = b}
IsPrefix(q, r) == Len(q) <= Len(r) /\ SubSeq(r, 1, Len(q)) = q

\* what C17 says, for the set of buckets whose delete_objects request has to
\* have a record
OneRecordPerAttempt(buckets) ==
    /\ \A g \in GatewayIds : Cardinality(RecordsOfGateway(g)) <= 1
    /\ \A b \in BucketIds : Cardinality(RecordsOfBucket(b)) <= 1
    /\ (pc = "done" /\ op = "cleanup-all") =>
         /\ \A g \in attempted : Cardinality(RecordsOfGateway(g)) = 1
         /\ \A b \in buckets : Cardinality(RecordsOfBucket(b)) = 1
         /\ stackDeleteIssued => stackResult # NoResult

\* the report only grows
RecordsKept ==
    /\ IsPrefix(results, results')
    /\ IsPrefix(s3Results, s3Results')
    /\ stackResult # NoResult => stackResult' = stackResult

\* C17 (as claimed): every gateway handed to delete_gateway, every bucket
\* for which delete_objects was issued and the stack deletion have exactly
\* one record when cleanup_all has ended, and no step removes or changes a
\* record.
C17_OneRecordPerAttempt ==
    [](OneRecordPerAttempt(s3Attempts)) /\ [][RecordsKept]_vars

\* C17 (amended): the same, for every bucket whose delete_objects request
\* did not fail with NoSuchBucket.
C17_OneRecordPerAttemptNotGone ==
    [](OneRecordPerAttempt(s3Attempts \ (FailedBuckets \ GenuinelyFailedBuckets)))
        /\ [][RecordsKept]_vars

C17_Witness ==
    /\ pc = "done"
    /\ op = "cleanup-all"
    /\ "g1" \in failedDeletes
    /\ "g2" \notin attempted
    /\ Len(results) = 1
    /\ s3Attempts = {"b1", "b2"}
    /\ <<"b2", "NoSuchBucket">> \in bucketFailures
    /\ Len(s3Results) = 1
    /\ stackResult = StackRecord("deleted")

\* the gateways of the listing that list_resources reports, and those that
\* cleanup_gateways hands to delete_gateway when force is set
ReportedOfListing ==
    {g \in SeqRange(GatewayListing) : IsListedGateway(GatewayName(g))}
SubmittedOfListing ==
    {g \in SeqRange(GatewayListing) : IsOurGateway(GatewayName(g))}

\* C21: whatever gateways the remote holds when list_resources runs, the
\* gateways its filter selects from the listing are exactly those that
\* cleanup_gateways with force would hand to delete_gateway, and the
\* inventory holds them (none when list_gateways fails).
C21_InventoryMirrorsSweep ==
    [][(pc = "idle" /\ op' = "inventory") =>
          /\ ReportedOfListing = SubmittedOfListing
          /\ inventory' \in {SubmittedOfListing, {}}
      ]_vars

\* the failures of buckets that are gone, and the others
BenignFailures == {f \in bucketFailures : f[2] = "NoSuchBucket"}
GenuineFailures == bucketFailures \ BenignFailures

\* C22: a bucket whose cleaning fails with NoSuchBucket gets no record, a
\* bucket whose cleaning fails otherwise gets exactly one record, of status
\* 'error'; the step at which a bucket fails appends that record or nothing
\* and leaves the sweep in its loop with the buckets still to visit, and a
\* sweep in which a bucket failed ends only when every listed bucket was
\* visited.
C22_MissingBucketIsBenign ==
    /\ [](/\ \A f \in BenignFailures : RecordsOfBucket(f[1]) = {}
          /\ \A f \in GenuineFailures :
               /\ Cardinality(RecordsOfBucket(f[1])) = 1
               /\ \A i \in RecordsOfBucket(f[1]) : s3Results[i].status = "error"
          /\ ("s3" \in finished /\ bucketFailures # {}) => bucketQueue = <<>>)
    /\ [][\A f \in bucketFailures' \ bucketFailures :
            /\ pc' = "s3_sweep"
            /\ bucketQueue' = IF pc = "s3_sweep" THEN Tail(bucketQueue)
                               ELSE bucketQueue
            /\ "s3" \notin finished'
            /\ s3Results' = IF f[2] = "NoSuchBucket" THEN s3Results
                            ELSE Append(s3Results, BucketRecord(f[1], "error", 0))
         ]_vars

C22_Witness ==
    /\ pc = "done"
    /\ "s3" \in finished
    /\ bucketFailures = {<<"b2", "NoSuchBucket">>, <<"b1", "Error">>}
    /\ Len(s3Results) = 1
    /\ s3Results[1] = BucketRecord("b1", "error", 0)

\* the targets of this delete_gateway call whose deletion is pending:
\* delete_gateway_target was issued, no fetch has answered not-found yet
PendingTargetDeletes == targetDeletes \ confirmedAbsent

\* C23: within one delete_gateway call, delete_gateway_target is issued for
\* a target only when every target processed before it has been answered
\* not-found by get_gateway_target, so that at most one target deletion is
\* pending and at most one target of the call is being deleted on the remote.
C23_TargetsDeletedOneByOne ==
    /\ [](/\ Cardinality(PendingTargetDeletes) <= 1
          /\ Cardinality({t \in targetDeletes : tgStatus[t] = "DELETING"}) <= 1)
    /\ [][\A t \in targetDeletes' \ targetDeletes :
            /\ targetDeletes \subseteq confirmedAbsent
            /\ \A u \in targetDeletes : ~Exists(tgStatus[u])
            /\ targetDeletes' = targetDeletes \cup {t}
         ]_vars

C23_Witness ==
    /\ pc = "wait_target_deleted"
    /\ caller = "main"
    /\ Cardinality(targetDeletes) = 2
    /\ Cardinality(confirmedAbsent) = 1
    /\ tgStatus[tid] = "DELETING"
    /\ elapsed > 0

\* the positions of the program inside delete_gateway
DeletePcs == {"list_targets", "delete_loop", "wait_target_deleted",
              "wait_gateway_deleted"}

\* C24: when list_gateway_targets, a delete_gateway_target or a wait for a
\* target's deletion has failed or timed out in a delete_gateway call, the
\* call has ended without issuing the control-plane delete of the gateway
\* and without returning a result, and its caller has received the error:
\* main exits with code 1, the sweep records an 'error' for the gateway.
C24_FailureBeforeParentDeletePropagates ==
    failedStep \in {"list", "target_delete", "target_wait"} =>
        /\ ~parentDeleteIssued
        /\ pc \notin DeletePcs
        /\ deleteResult = NoResult
        /\ caller = "main" =>
             /\ pc = "done"
             /\ exitCode = 1
             /\ raised \in {"Error", "ResourceNotFound", "Timeout"}
             /\ raised = "Timeout" => (waitEnd = "timeout" /\ elapsed >= MaxWait)
        /\ caller = "sweep" =>
             /\ gid \in failedDeletes
             /\ \E i \in RecordsOfGateway(gid) : results[i].status = "error"
             /\ \A i \in RecordsOfGateway(gid) : results[i].status # "deleted"

C24_Witness ==
    /\ failedStep = "target_wait"
    /\ raised = "Timeout"
    /\ caller = "main"
    /\ pc = "done"
    /\ Cardinality(listed) = 2
    /\ Cardinality(targetDeletes) = 1
    /\ gw[gid] = "ACTIVE"

\* C25: main issues create_gateway_target only when create_gateway has
\* returned the handle of the gateway after a fetch of its wait answered
\* ACTIVE within the budget; when the wait of create_gateway ends with the
\* activation failure or the timeout, the invocation ends with exit code 1
\* and no get_function and no create_gateway_target call is issued.
C25_TargetCreatedOnlyForActiveGateway ==
    /\ [][(~targetCreateIssued /\ targetCreateIssued') =>
            /\ op = "create"
            /\ waitKind = "gateway_active"
            /\ waitEnd = "returned"
            /\ lastFetch = "ACTIVE"
            /\ fetchInBudget
            /\ gatewayResult = CreatedHandle(gid)
            /\ gw[gid] \in {"ACTIVE", "DELETING", "GONE"}
         ]_vars
    /\ []((waitKind = "gateway_active" /\ waitEnd \in {"failed", "timeout"}) =>
            /\ pc = "done"
            /\ exitCode = 1
            /\ raised \in {"Failed", "Timeout"}
            /\ functionSeen = "none"
            /\ ~targetCreateIssued
            /\ tid = NoTarget
            /\ gatewayResult = NoResult)

C25_Witness ==
    /\ op = "create"
    /\ waitKind = "gateway_active"
    /\ waitEnd = "timeout"
    /\ lastFetch = "CREATING"
    /\ exitCode = 1
    /\ ~targetCreateIssued
    /\ gw[gid] = "ACTIVE"
    /\ invocations = 2

\* C26: delete_cloudformation_stack returns a record and raises nothing,
\* whatever its calls answer: 'not_found', with no delete_stack and no wait,
\* exactly when describe_stacks answered that the stack does not exist;
\* 'error' when describe_stacks, delete_stack or the waiter failed, the
\* waiter having made at most WaiterMaxAttempts attempts WaiterDelay seconds
\* apart; 'deleted' otherwise.  The step changes no gateway, target or
\* object and no record of the two sweeps, and cleanup_all returns the
\* report.
C26_StackDeletionNeverRaises ==
    /\ [][(pc = "delete_stack" /\ pc' # "delete_stack") =>
            /\ pc' = "return"
            /\ stackResult'.status \in {"not_found", "error", "deleted"}
            /\ errors' = errors
            /\ raised' = raised
            /\ exitCode' = exitCode
            /\ stackCalls'.describe \in {"ok", "does not exist", "Error"}
            /\ stackCalls'.describe = "does not exist" <=>
                 stackResult'.status = "not_found"
            /\ stackResult'.status = "not_found" =>
                 /\ ~Exists(stack)
                 /\ ~stackDeleteIssued'
                 /\ stackCalls'.delete = "none"
                 /\ stackCalls'.attempts = 0
                 /\ stack' = stack
            /\ stackResult'.status = "error" <=>
                 \/ stackCalls'.describe = "Error"
                 \/ stackCalls'.delete = "Error"
                 \/ stackCalls'.wait = "Error"
            /\ stackCalls'.attempts <= WaiterMaxAttempts
            /\ (stackCalls'.attempts - 1) * WaiterDelay
                 <= (WaiterMaxAttempts - 1) * WaiterDelay
            /\ stackCalls'.wait # "none" => stackCalls'.attempts >= 1
            /\ gw' = gw
            /\ tgStatus' = tgStatus
            /\ tgOwner' = tgOwner
            /\ bucketsPresent' = bucketsPresent
            /\ objects' = objects
            /\ results' = results
            /\ s3Results' = s3Results
         ]_vars
    /\ []((pc = "done" /\ op = "cleanup-all" /\ stackResult # NoResult) =>
            /\ exitCode = 0
            /\ raised = "none"
            /\ errors = <<>>)

C26_Witness ==
    /\ pc = "done"
    /\ op = "cleanup-all"
    /\ stackCalls.wait = "Error"
    /\ stackCalls.attempts = WaiterMaxAttempts
    /\ stackResult = StackRecord("error")
    /\ stack = "DELETING"
    /\ \E i \in 1..Len(results) : results[i].status = "deleted"
    /\ \E i \in 1..Len(s3Results) : s3Results[i].status = "cleaned"

\* C27: when an invocation of create has ended because a wait of
\* create_gateway or add_lambda_target met status FAILED or timed out, no
\* delete_gateway_target and no delete_gateway was issued, and the gateway
\* created, and the target if one was created, are still on the control
\* plane, none of them being deleted.
C27_FailedCreateNotRolledBack ==
    (op = "create" /\ pc = "done" /\ waitEnd \in {"failed", "timeout"}) =>
        /\ exitCode = 1
        /\ targetDeletes = {}
        /\ ~parentDeleteIssued
        /\ failedStep = "none"
        /\ gw[gid] \in {"CREATING", "ACTIVE", "FAILED"}
        /\ waitKind = "target_active" =>
             /\ tgOwner[tid] = gid
             /\ tgStatus[tid] \in {"CREATING", "ACTIVE", "FAILED"}

C27_Witness ==
    /\ op = "create"
    /\ pc = "done"
    /\ waitKind = "target_active"
    /\ waitEnd = "failed"
    /\ gw[gid] = "ACTIVE"
    /\ tgStatus[tid] = "FAILED"
    /\ elapsed > PollSleep

\* C28: a deletion wait does not look at the status it fetches.  A fetch
\* issued within the budget that answers a status, FAILED included, is
\* followed by the sleep and the next loop test; the wait ends only on a
\* fetch answered not-found, by returning; on a failed loop test, by the
\* timeout error; or on a fetch that fails otherwise, by that error.
C28_DeletionWaitIgnoresStatus ==
    /\ [][(pc \in {"wait_target_deleted", "wait_gateway_deleted"}
             /\ (elapsed' # elapsed \/ waitEnd' # waitEnd)) =>
            /\ (elapsed < MaxWait
                  /\ lastFetch' \notin {"ResourceNotFound", "Error"}) =>
                 /\ pc' = pc
                 /\ waitEnd' = "none"
                 /\ elapsed' >= elapsed + PollSleep
                 /\ raised' = raised
                 /\ exitCode' = exitCode
                 /\ results' = results
            /\ pc' # pc =>
                 \/ /\ elapsed < MaxWait
                    /\ lastFetch' = "ResourceNotFound"
                    /\ waitEnd' = "returned"
                    /\ failedStep' = "none"
                 \/ /\ elapsed >= MaxWait
                    /\ waitEnd' = "timeout"
                    /\ lastFetch' = lastFetch
                    /\ caller = "main" => (raised' = "Timeout" /\ exitCode' = 1)
                    /\ caller = "sweep" => gid \in failedDeletes'
                 \/ /\ elapsed < MaxWait
                    /\ lastFetch' = "Error"
                    /\ waitEnd' = "error"
                    /\ caller = "main" => (raised' = "Error" /\ exitCode' = 1)
                    /\ caller = "sweep" => gid \in failedDeletes'
         ]_vars
    /\ []((waitKind \in DeletionWaits /\ lastFetch = "FAILED") =>
            \/ (pc = WaitPc(waitKind) /\ waitEnd = "none")
            \/ (waitEnd = "timeout" /\ elapsed >= MaxWait))

C28_Witness ==
    /\ waitKind = "target_deleted"
    /\ lastFetch = "FAILED"
    /\ waitEnd = "timeout"
    /\ tgStatus[tid] = "FAILED"
    /\ ~parentDeleteIssued

====
